---- MODULE Spec2Model ----
(***************************************************************************)
(* A model of the flamego CORS middleware (src/cors.go, the                *)
(* flamego.ContextInvoker revision at lines 274-400).                      *)
(*                                                                         *)
(* The policy is fixed at construction (prepareOptions); one request at a  *)
(* time is dispatched through the chain                                    *)
(*     ServeHTTP -> CORS middleware -> downstream handler / NotFound       *)
(* and the response writer records the header map, the status, the body,   *)
(* the registered pre-flush hooks and the header set that went out with    *)
(* the status line.                                                        *)
(*                                                                         *)
(* Strings are TLA+ strings; Len, \o and SubSeq are the only primitives    *)
(* used on them.                                                           *)
(***************************************************************************)
EXTENDS Integers, Sequences, FiniteSets, TLC

VARIABLES
    options,     \* the arguments CORS was constructed with
    opt,         \* the effective policy, prepareOptions(options)
    pc,          \* where the request is in the chain
    req,         \* the request being served
    w,           \* the response writer of the request
    handlerRan,  \* whether the route's handler was invoked
    handlerSet   \* the headers the route's handler set itself

vars == <<options, opt, pc, req, w, handlerRan, handlerSet>>

----------------------------------------------------------------------------
(* Bounds of the model. *)

\* time.Second, in ticks of the model's clock (a time.Duration is a count of
\* ticks; the real tick is the nanosecond).
Second == 4

\* The sub-second and small MaxAge values tried run from 1 to MaxAgeTicks.
MaxAgeTicks == 6

----------------------------------------------------------------------------
(* String helpers (Go's strings and strconv packages). *)

Char(s, i) == SubSeq(s, i, i)

CharsOf(s) == {Char(s, i) : i \in 1..Len(s)}

HasPrefix(s, p) == Len(s) >= Len(p) /\ SubSeq(s, 1, Len(p)) = p

HasSuffix(s, suf) ==
    Len(s) >= Len(suf) /\ SubSeq(s, Len(s) - Len(suf) + 1, Len(s)) = suf

\* strings.Index(s, c) for a one-character c, 1-based; 0 when absent.
Index(s, c) ==
    IF \E i \in 1..Len(s) : Char(s, i) = c
    THEN CHOOSE i \in 1..Len(s) :
            Char(s, i) = c /\ \A j \in 1..(i - 1) : Char(s, j) # c
    ELSE 0

\* strings.LastIndex(s, c) for a one-character c, 1-based; 0 when absent.
LastIndex(s, c) ==
    IF \E i \in 1..Len(s) : Char(s, i) = c
    THEN CHOOSE i \in 1..Len(s) :
            Char(s, i) = c /\ \A j \in (i + 1)..Len(s) : Char(s, j) # c
    ELSE 0

RECURSIVE Join(_, _)
\* strings.Join(elems, sep)
Join(elems, sep) ==
    IF Len(elems) = 0 THEN ""
    ELSE IF Len(elems) = 1 THEN elems[1]
    ELSE elems[1] \o sep \o Join(Tail(elems), sep)

RECURSIVE Itoa(_)
\* The decimal digits of a natural number.
Itoa(n) ==
    IF n < 10 THEN Char("0123456789", n + 1)
    ELSE Itoa(n \div 10) \o Char("0123456789", (n % 10) + 1)

\* strconv.FormatBool
FormatBool(b) == IF b THEN "true" ELSE "false"

\* strconv.FormatFloat(d.Seconds(), 'f', 0, 64) for a duration d > 0 of ticks:
\* the nearest whole number of seconds, a tie going to the even one.
FormatSeconds(d) ==
    LET q == d \div Second
        r == d % Second
    IN  IF 2 * r > Second THEN Itoa(q + 1)
        ELSE IF 2 * r < Second THEN Itoa(q)
        ELSE IF q % 2 = 0 THEN Itoa(q) ELSE Itoa(q + 1)

----------------------------------------------------------------------------
(* Header maps (http.Header, map[string]string): functions from names.     *)

EmptyMap == [k \in {} |-> ""]

\* http.Header.Get: "" for a name that is not there.
Get(h, k) == IF k \in DOMAIN h THEN h[k] ELSE ""

\* http.Header.Set
Set(h, k, v) == [x \in (DOMAIN h) \cup {k} |-> IF x = k THEN v ELSE h[x]]

\* for k, v := range m { h.Set(k, v) }
SetAll(h, m) ==
    [x \in (DOMAIN h) \cup (DOMAIN m) |-> IF x \in DOMAIN m THEN m[x] ELSE h[x]]

ACAO == "Access-Control-Allow-Origin"
ACAM == "Access-Control-Allow-Methods"
ACAH == "Access-Control-Allow-Headers"
ACMA == "Access-Control-Max-Age"
ACAC == "Access-Control-Allow-Credentials"
VARY == "Vary"
ACRH == "Access-Control-Request-Headers"

CORSHeaderNames == {ACAO, ACAM, ACAH, ACMA, ACAC, VARY}

----------------------------------------------------------------------------
(* net/url: url.Parse and URL.String, over the characters the origins of   *)
(* the model are written in: lower-case letters, digits and . - : / % and  *)
(* the space.  (No upper case, so strings.ToLower leaves a scheme as it    *)
(* is; no ? # @ [ ], so there is no query, fragment, userinfo or IPv6      *)
(* literal; no valid %XX escape, so nothing is ever decoded.)              *)

Letters == CharsOf("abcdefghijklmnopqrstuvwxyz")

Digits == CharsOf("0123456789")

HexDigits == Digits \cup CharsOf("abcdef")

RECURSIVE GetSchemeAt(_, _)
\* url.getScheme: the loop at position i.
GetSchemeAt(rawURL, i) ==
    IF i > Len(rawURL) THEN [scheme |-> "", rest |-> rawURL, err |-> ""]
    ELSE LET c == Char(rawURL, i)
         IN  IF c \in Letters THEN GetSchemeAt(rawURL, i + 1)
             ELSE IF c \in Digits \cup {"+", "-", "."}
                  THEN IF i = 1
                       THEN [scheme |-> "", rest |-> rawURL, err |-> ""]
                       ELSE GetSchemeAt(rawURL, i + 1)
             ELSE IF c = ":"
                  THEN IF i = 1
                       THEN [scheme |-> "", rest |-> "",
                             err |-> "missing protocol scheme"]
                       ELSE [scheme |-> SubSeq(rawURL, 1, i - 1),
                             rest |-> SubSeq(rawURL, i + 1, Len(rawURL)),
                             err |-> ""]
             ELSE [scheme |-> "", rest |-> rawURL, err |-> ""]

\* url.validOptionalPort: "" or ":" followed by digits only.
ValidOptionalPort(port) ==
    \/ port = ""
    \/ /\ Char(port, 1) = ":"
       /\ \A i \in 2..Len(port) : Char(port, i) \in Digits

\* url.unescape's validation: every % is followed by two hex digits.
BadEscape(s) ==
    \E i \in 1..Len(s) :
        /\ Char(s, i) = "%"
        /\ ~(/\ i + 2 <= Len(s)
             /\ Char(s, i + 1) \in HexDigits
             /\ Char(s, i + 2) \in HexDigits)

\* url.parseHost: the error for a host[:port], "" when it is accepted.
ParseHostErr(host) ==
    LET i == LastIndex(host, ":")
    IN  IF i # 0 /\ ~ValidOptionalPort(SubSeq(host, i, Len(host)))
        THEN "invalid port \"" \o SubSeq(host, i, Len(host)) \o "\" after host"
        ELSE IF BadEscape(host) THEN "invalid URL escape in host"
        ELSE IF " " \in CharsOf(host)
             THEN "invalid character \" \" in host name"
        ELSE ""

URLOf(scheme, opaque, host, path, omitHost) ==
    [Scheme |-> scheme, Opaque |-> opaque, Host |-> host, Path |-> path,
     OmitHost |-> omitHost]

\* url.Parse(rawURL): [err, url]; err = "" when the parse succeeds.
Parse(rawURL) ==
    LET g == GetSchemeAt(rawURL, 1)
        rest == g.rest
        bad(e) == [err |-> "parse \"" \o rawURL \o "\": " \o e,
                   url |-> URLOf("", "", "", "", FALSE)]
        good(u) == [err |-> "", url |-> u]
    IN  IF g.err # "" THEN bad(g.err)
        ELSE IF ~HasPrefix(rest, "/") /\ g.scheme # ""
             THEN good(URLOf(g.scheme, rest, "", "", FALSE))
        ELSE IF /\ ~HasPrefix(rest, "/")
                /\ LET cut == Index(rest, "/")
                       segment == IF cut = 0 THEN rest
                                  ELSE SubSeq(rest, 1, cut - 1)
                   IN  ":" \in CharsOf(segment)
             THEN bad("first path segment in URL cannot contain colon")
        ELSE IF (g.scheme # "" \/ ~HasPrefix(rest, "///")) /\ HasPrefix(rest, "//")
             THEN LET auth0 == SubSeq(rest, 3, Len(rest))
                      i == Index(auth0, "/")
                      authority == IF i = 0 THEN auth0 ELSE SubSeq(auth0, 1, i - 1)
                      path == IF i = 0 THEN "" ELSE SubSeq(auth0, i, Len(auth0))
                      herr == ParseHostErr(authority)
                  IN  IF herr # "" THEN bad(herr)
                      ELSE IF BadEscape(path)
                           THEN bad("invalid URL escape in path")
                      ELSE good(URLOf(g.scheme, "", authority, path, FALSE))
        ELSE IF BadEscape(rest) THEN bad("invalid URL escape in path")
        ELSE good(URLOf(g.scheme, "", "", rest,
                        g.scheme # "" /\ HasPrefix(rest, "/")))

RECURSIVE EscapePath(_)
\* URL.EscapedPath: of the model's characters only the space is escaped.
EscapePath(p) ==
    IF p = "" THEN ""
    ELSE (IF Char(p, 1) = " " THEN "%20" ELSE Char(p, 1))
         \o EscapePath(SubSeq(p, 2, Len(p)))

\* URL.String()
String(u) ==
    LET s1 == IF u.Scheme # "" THEN u.Scheme \o ":" ELSE ""
    IN  IF u.Opaque # "" THEN s1 \o u.Opaque
        ELSE LET s2 ==
                   IF u.Scheme # "" \/ u.Host # ""
                   THEN IF u.OmitHost /\ u.Host = "" THEN s1
                        ELSE (IF u.Host # "" \/ u.Path # ""
                              THEN s1 \o "//" ELSE s1) \o u.Host
                   ELSE s1
                 path == EscapePath(u.Path)
                 s3 == IF path # "" /\ Char(path, 1) # "/" /\ u.Host # ""
                       THEN s2 \o "/" ELSE s2
             IN  s3 \o path

----------------------------------------------------------------------------
(* Options and prepareOptions. *)

\* The Options literal: a zero field is "", <<>>, 0 or FALSE.
OptionsOf(scheme, allowDomain, allowSubdomain, methods, maxAge, allowCredentials) ==
    [Scheme |-> scheme, AllowDomain |-> allowDomain,
     AllowSubdomain |-> allowSubdomain, Methods |-> methods,
     MaxAge |-> maxAge, AllowCredentials |-> allowCredentials]

\* var opt Options
ZeroOptions == OptionsOf("", <<>>, FALSE, <<>>, 0, FALSE)

\* The default of Methods in the earlier revisions.
DefaultMethodsEarlier ==
    <<"GET", "HEAD", "POST", "PUT", "PATCH", "DELETE", "OPTIONS">>

\* The default of Methods.
DefaultMethods == <<"GET", "OPTIONS", "POST">>

\* The default of MaxAge: time.Duration(600) * time.Second.
DefaultMaxAge == 600 * Second

\* prepareOptions(options []Options)
prepareOptions(opts) ==
    LET o0 == IF Len(opts) > 0 THEN opts[1] ELSE ZeroOptions
        o1 == IF o0.Scheme = "" THEN [o0 EXCEPT !.Scheme = "http"] ELSE o0
        o2 == IF Len(o1.AllowDomain) = 0
              THEN [o1 EXCEPT !.AllowDomain = <<"*">>] ELSE o1
        o3 == IF Len(o2.Methods) = 0
              THEN [o2 EXCEPT !.Methods = DefaultMethods] ELSE o2
        o4 == IF o3.MaxAge <= 0
              THEN [o3 EXCEPT !.MaxAge = DefaultMaxAge] ELSE o3
    IN  o4

----------------------------------------------------------------------------
(* The inputs tried. *)

Schemes == {"", "https", "*"}

AllowDomains ==
    { <<>>, <<"*">>, <<"example.com">>, <<"!*">>,
      <<"other.org", "example.com">>, <<"example.com", "*">> }

MethodLists == { <<>>, <<"GET", "POST", "OPTIONS">> }

MaxAges == {-1, 0} \cup (1..MaxAgeTicks) \cup {20 * Second}

OptionValues ==
    { OptionsOf(s, d, sub, m, a, c) :
        s \in Schemes, d \in AllowDomains, sub \in BOOLEAN,
        m \in MethodLists, a \in MaxAges, c \in BOOLEAN }

\* CORS(options ...Options): no argument, or one.
OptionArgs == {<<>>} \cup { <<o>> : o \in OptionValues }

RequestMethods == {"GET", "POST", "OPTIONS"}

\* Values of the Origin request header.
Origins ==
    { "https://example.com", "http://example.com", "https://a.example.com",
      "https://evilexample.com", "https://example.com:8080",
      "https://other.org", "example.com",
      "http://exa mple.com", "%zz", "https://example.com:80a",
      "://example.com" }

\* The request header sets: Origin and Access-Control-Request-Headers, each
\* absent or present.
RequestHeaders ==
    { o @@ h : o \in {EmptyMap} \cup { "Origin" :> x : x \in Origins },
               h \in {EmptyMap, ACRH :> "Content-Type"} }

\* Headers the route's handler sets on the response before it writes.
HandlerHeaders ==
    { EmptyMap, ACAO :> "https://handler.example", "X-Handler" :> "1" }

----------------------------------------------------------------------------
(* The response writer (flamego.ResponseWriter over http.ResponseWriter).  *)
(*   header   the response's header map                                    *)
(*   status   the status written, 0 while none is                          *)
(*   body     the bytes written                                            *)
(*   befores  the header sets of the registered Before callbacks           *)
(*   sent     the header map as it went out with the status line           *)
(*   applied  how many times a Before callback has run                     *)

NewResponseWriter ==
    [header |-> EmptyMap, status |-> 0, body |-> "", befores |-> <<>>,
     sent |-> EmptyMap, applied |-> 0]

Written(rw) == rw.status # 0

\* A variant that writes the headers at once instead of registering them.
BeforeEager(rw, headers) == [rw EXCEPT !.header = SetAll(@, headers)]

\* ResponseWriter.Before(func(w) { for k, v := range headers { w.Header().Set(k, v) } })
Before(rw, headers) == [rw EXCEPT !.befores = Append(@, headers)]

RECURSIVE CallBefore(_, _)
\* The registered callbacks run last-registered first, from index i down.
CallBefore(rw, i) ==
    IF i = 0 THEN rw
    ELSE CallBefore([rw EXCEPT !.header = SetAll(@, rw.befores[i]),
                               !.applied = @ + 1], i - 1)

\* ResponseWriter.WriteHeader(s): the Before callbacks run, then the status
\* line and the header map go out (only the first status is sent).
WriteHeader(rw, s) ==
    LET r1 == CallBefore(rw, Len(rw.befores))
    IN  IF Written(rw) THEN r1
        ELSE [r1 EXCEPT !.status = s, !.sent = r1.header]

\* ResponseWriter.Write(b): an unwritten response gets status 200 first.
Write(rw, b) ==
    LET r1 == IF ~Written(rw) THEN WriteHeader(rw, 200) ELSE rw
    IN  [r1 EXCEPT !.body = @ \o b]

\* http.Error(w, error, code)
HttpError(rw, error, code) ==
    LET h1 == Set(Set(rw.header, "Content-Type", "text/plain; charset=utf-8"),
                  "X-Content-Type-Options", "nosniff")
        r1 == WriteHeader([rw EXCEPT !.header = h1], code)
    IN  Write(r1, error \o "\n")

\* The chain after a handler returns: it stops once the response is written.
Continue(rw) == IF Written(rw) THEN "done" ELSE "next"

----------------------------------------------------------------------------
(* The CORS middleware. *)

\* The header set built unconditionally.
BaseHeaders(o, r) ==
    (ACAM :> Join(o.Methods, ",")) @@
    (ACAH :> Get(r.header, ACRH)) @@
    (ACMA :> FormatSeconds(o.MaxAge))

\* A variant whose subdomain test forgets the dot.
DomainMatchesNoDot(o, u, d) ==
    \/ u.Host = d
    \/ o.AllowSubdomain /\ HasSuffix(u.Host, d)
    \/ d = "!*"

\* One entry d of AllowDomain against the parsed origin u.
DomainMatches(o, u, d) ==
    \/ u.Host = d
    \/ o.AllowSubdomain /\ HasSuffix(u.Host, "." \o d)
    \/ d = "!*"

\* A variant that lets every origin through.
DomainAllowedAlways(o, u) == TRUE

\* The loop over AllowDomain.
DomainAllowed(o, u) ==
    \E i \in 1..Len(o.AllowDomain) : DomainMatches(o, u, o.AllowDomain[i])

\* A variant that echoes the origin with its own scheme.
AllowedOriginOwnScheme(o, u) == String(u)

\* The origin echoed: the scheme forced unless the policy's is "*".
AllowedOrigin(o, u) ==
    String(IF o.Scheme # "*" THEN [u EXCEPT !.Scheme = o.Scheme] ELSE u)

\* A variant that forgets Vary.
OriginHeadersNoVary(o, u) ==
    (ACAO :> AllowedOrigin(o, u)) @@
    (ACAC :> FormatBool(o.AllowCredentials))

\* The headers added for an accepted origin.
OriginHeaders(o, u) ==
    (ACAO :> AllowedOrigin(o, u)) @@
    (ACAC :> FormatBool(o.AllowCredentials)) @@
    (VARY :> "Origin")

\* The policy's first entry is the any-domain wildcard.
IsWildcard(o) == o.AllowDomain[1] = "*"

\* A variant that adds the credentials header under the wildcard as well.
WildcardHeadersWithCredentials(o, base) ==
    Set(Set(base, ACAO, "*"), ACAC, FormatBool(o.AllowCredentials))

\* The header set scheduled under the any-domain wildcard.
WildcardHeaders(o, base) == Set(base, ACAO, "*")

\* A variant without the early return.
SkipNonCORSNever(origin) == FALSE

\* if origin == "" { return }: a request without Origin is no CORS request.
SkipNonCORS(origin) == origin = ""

\* The decision of the middleware for request r under policy o:
\* "skip" (return), "fail" (http.Error 400 with msg) or "schedule" (headers).
Evaluate(o, r) ==
    LET base == BaseHeaders(o, r)
        origin == Get(r.header, "Origin")
        p == Parse(origin)
        out(k, h, m) == [kind |-> k, headers |-> h, msg |-> m]
    IN  IF IsWildcard(o) THEN out("schedule", WildcardHeaders(o, base), "")
        ELSE IF SkipNonCORS(origin) THEN out("skip", EmptyMap, "")
        ELSE IF p.err # ""
             THEN out("fail", EmptyMap,
                      "Unable to parse CORS origin header: " \o p.err)
        ELSE IF ~DomainAllowed(o, p.url)
             THEN out("fail", EmptyMap,
                      "CORS request from prohibited domain " \o origin)
        ELSE out("schedule", SetAll(base, OriginHeaders(o, p.url)), "")

----------------------------------------------------------------------------
(* The state machine. *)

NoRequest == [method |-> "", header |-> EmptyMap, routed |-> FALSE]

Init ==
    /\ options \in OptionArgs
    /\ opt = prepareOptions(options)
    /\ pc = "idle"
    /\ req = NoRequest
    /\ w = NewResponseWriter
    /\ handlerRan = FALSE
    /\ handlerSet = EmptyMap

\* f.ServeHTTP(resp, req): a request arrives, with a fresh response; routed
\* says whether a route with a handler matches its method and path.
ServeHTTP(method, header, routed) ==
    /\ pc = "idle"
    /\ req' = [method |-> method, header |-> header, routed |-> routed]
    /\ w' = NewResponseWriter
    /\ handlerRan' = FALSE
    /\ handlerSet' = EmptyMap
    /\ pc' = "cors"
    /\ UNCHANGED <<options, opt>>

\* The middleware up to and including the registration of the callback.
CORSEvaluate ==
    /\ pc = "cors"
    /\ LET e == Evaluate(opt, req)
       IN  /\ w' = CASE e.kind = "skip" -> w
                     [] e.kind = "fail" -> HttpError(w, e.msg, 400)
                     [] e.kind = "schedule" -> Before(w, e.headers)
           /\ pc' = IF e.kind = "schedule" THEN "preflight" ELSE Continue(w')
    /\ UNCHANGED <<options, opt, req, handlerRan, handlerSet>>

\* A variant that leaves the preflight to the rest of the chain.
PreflightWriteNever(rw, method) == rw

\* if ctx.Request().Method == http.MethodOptions { WriteHeader(200) }
PreflightWrite(rw, method) ==
    IF method = "OPTIONS" THEN WriteHeader(rw, 200) ELSE rw

\* The end of the middleware: an OPTIONS request is answered with 200.
CORSPreflight ==
    /\ pc = "preflight"
    /\ w' = PreflightWrite(w, req.method)
    /\ pc' = Continue(w')
    /\ UNCHANGED <<options, opt, req, handlerRan, handlerSet>>

\* The route's handler: it may set headers of its own, then returns "ok".
Handler(hh) ==
    /\ pc = "next"
    /\ req.routed
    /\ handlerRan' = TRUE
    /\ handlerSet' = hh
    /\ w' = Write([w EXCEPT !.header = SetAll(@, hh)], "ok")
    /\ pc' = "done"
    /\ UNCHANGED <<options, opt, req>>

\* No route matches: the framework's NotFound handler answers.
NotFound ==
    /\ pc = "next"
    /\ ~req.routed
    /\ w' = HttpError(w, "404 page not found", 404)
    /\ pc' = "done"
    /\ UNCHANGED <<options, opt, req, handlerRan, handlerSet>>

\* ServeHTTP returns: the response is complete and the server is free for
\* the next request.
Return ==
    /\ pc = "done"
    /\ pc' = "idle"
    /\ req' = NoRequest
    /\ w' = NewResponseWriter
    /\ handlerRan' = FALSE
    /\ handlerSet' = EmptyMap
    /\ UNCHANGED <<options, opt>>

Next ==
    \/ \E m \in RequestMethods, h \in RequestHeaders, r \in BOOLEAN :
          ServeHTTP(m, h, r)
    \/ CORSEvaluate
    \/ CORSPreflight
    \/ \E hh \in HandlerHeaders : Handler(hh)
    \/ NotFound
    \/ Return

Spec == Init /\ [][Next]_vars

----------------------------------------------------------------------------
(* Vocabulary of the properties. *)

\* The Origin header of the request being served ("" when absent).
Origin == Get(req.header, "Origin")

\* The middleware has returned for the request being served.
Evaluated == pc \in {"preflight", "next", "done"}

\* The origin parses as a URI.
WellFormed == Parse(Origin).err = ""

\* The host (with its port) of a well-formed origin.
OriginHost == Parse(Origin).url.Host

\* Some entry of AllowDomain admits the origin's host: the host itself, a
\* strict subdomain when subdomains are allowed, or the "!*" sentinel.
SomeEntryAdmits ==
    \E i \in DOMAIN opt.AllowDomain :
        LET d == opt.AllowDomain[i]
            n == Len(OriginHost) - Len(d)
        IN  \/ OriginHost = d
            \/ /\ opt.AllowSubdomain
               /\ n >= 1
               /\ SubSeq(OriginHost, n, Len(OriginHost)) = "." \o d
            \/ d = "!*"

\* sub occurs in s.
Contains(s, sub) ==
    \E i \in 1..(Len(s) - Len(sub) + 1) : SubSeq(s, i, i + Len(sub) - 1) = sub

RECURSIVE Split(_, _)
\* s cut at every occurrence of the one-character sep.
Split(s, sep) ==
    LET i == Index(s, sep)
    IN  IF i = 0 THEN <<s>>
        ELSE <<SubSeq(s, 1, i - 1)>> \o Split(SubSeq(s, i + 1, Len(s)), sep)

RECURSIVE Atoi(_)
\* The number a string of decimal digits denotes.
Atoi(s) ==
    IF s = "" THEN 0
    ELSE 10 * Atoi(SubSeq(s, 1, Len(s) - 1))
         + (Index("0123456789", Char(s, Len(s))) - 1)

Abs(x) == IF x < 0 THEN -x ELSE x

\* No header of the CORS family is in header map h.
NoCORSHeader(h) == (DOMAIN h) \cap CORSHeaderNames = {}

\* The policy of the repository's test: https, example.com, credentials, 20 s.
TestPolicy ==
    OptionsOf("https", <<"example.com">>, FALSE,
              <<"GET", "POST", "OPTIONS">>, 20 * Second, TRUE)

----------------------------------------------------------------------------
C2_PreflightResponse ==
    (/\ pc = "done"
     /\ req.method = "OPTIONS"
     /\ opt.AllowDomain[1] # "*"
     /\ Origin # ""
     /\ WellFormed
     /\ SomeEntryAdmits)
        => /\ w.status = 200
           /\ DOMAIN w.sent = CORSHeaderNames
           /\ w.sent[ACAO] # ""
           /\ w.sent[ACAC] = (IF opt.AllowCredentials THEN "true" ELSE "false")
           /\ w.sent[VARY] = "Origin"
           /\ CharsOf(w.sent[ACMA]) \subseteq Digits
           /\ 2 * Abs(opt.MaxAge - Atoi(w.sent[ACMA]) * Second) <= Second
           /\ Split(w.sent[ACAM], ",") = opt.Methods
           /\ w.sent[ACAH] = (IF ACRH \in DOMAIN req.header
                              THEN req.header[ACRH] ELSE "")

\* The test's preflight: Origin https://example.com, request headers
\* Content-Type, under the test's policy.
C2_Witness ==
    /\ pc = "done"
    /\ req.method = "OPTIONS"
    /\ options = <<TestPolicy>>
    /\ Origin = "https://example.com"
    /\ w.status = 200
    /\ w.sent[ACAO] = "https://example.com"
    /\ w.sent[ACMA] = "20"
    /\ w.sent[ACAC] = "true"
    /\ w.sent[ACAH] = "Content-Type"
    /\ w.sent[ACAM] = "GET,POST,OPTIONS"

(* C3: under a non-wildcard policy, a request of any method whose Origin   *)
(* is present and either does not parse or is admitted by no entry of      *)
(* AllowDomain is answered 400 by the middleware, the route's handler is   *)
(* never invoked, no CORS header is set on the response, and in the        *)
(* no-match case the body names the raw Origin value.                      *)
C3_Rejected ==
    (/\ Evaluated
     /\ opt.AllowDomain[1] # "*"
     /\ Origin # ""
     /\ (~WellFormed \/ ~SomeEntryAdmits))
        => /\ pc = "done"
           /\ w.status = 400
           /\ ~handlerRan
           /\ w.befores = <<>>
           /\ NoCORSHeader(w.header)
           /\ NoCORSHeader(w.sent)
           /\ WellFormed => Contains(w.body, Origin)

\* A GET from a subdomain, with subdomains not allowed, is refused.
C3_Witness ==
    /\ pc = "done"
    /\ req.method = "GET"
    /\ req.routed
    /\ options = <<TestPolicy>>
    /\ Origin = "https://a.example.com"
    /\ w.status = 400
    /\ w.body = "CORS request from prohibited domain https://a.example.com\n"

(* C4 as stated: for an OPTIONS request under any policy and with any      *)
(* header set, the route's handler is never invoked, the middleware having *)
(* written a status (200 or 400) itself.                                   *)
C4_Original ==
    req.method = "OPTIONS"
        => /\ ~handlerRan
           /\ pc = "done" => w.status \in {200, 400}

(* C4, amended: for an OPTIONS request under a wildcard policy, or under   *)
(* any policy when the request carries an Origin header, the chain never   *)
(* continues past the middleware: the route's handler is never invoked and *)
(* the status is the middleware's own 200 or 400.  (Under a non-wildcard   *)
(* policy an OPTIONS request without Origin is passed on unanswered.)      *)
C4_PreflightStops ==
    (/\ req.method = "OPTIONS"
     /\ (opt.AllowDomain[1] = "*" \/ Origin # ""))
        => /\ pc # "next"
           /\ ~handlerRan
           /\ pc = "done" => w.status \in {200, 400}

\* A preflight to a route that has an OPTIONS handler, answered by the
\* middleware.
C4_Witness ==
    /\ pc = "done"
    /\ req.method = "OPTIONS"
    /\ req.routed
    /\ opt.AllowDomain[1] # "*"
    /\ Origin = "https://example.com"
    /\ w.status = 200
    /\ ~handlerRan

(* C5: under a non-wildcard policy a request with no Origin header is      *)
(* never failed: the middleware writes no status and no body, registers no *)
(* header at all, and the chain goes on to normal request handling.        *)
C5_NoOriginSkipped ==
    (/\ Evaluated
     /\ opt.AllowDomain[1] # "*"
     /\ Origin = "")
        => /\ pc \in {"next", "done"}
           /\ w.befores = <<>>
           /\ w.applied = 0
           /\ pc = "next" => w = NewResponseWriter
           /\ pc = "done" => /\ w.status \in {200, 404}
                             /\ handlerRan <=> req.routed
                             /\ DOMAIN w.sent \cap CORSHeaderNames
                                    \subseteq DOMAIN handlerSet

\* An OPTIONS request without Origin, passed on by the middleware.
C5_Witness ==
    /\ pc = "next"
    /\ req.method = "OPTIONS"
    /\ options = <<TestPolicy>>
    /\ "Origin" \notin DOMAIN req.header
    /\ w = NewResponseWriter

(* C6: under a non-wildcard policy a well-formed Origin is accepted if and *)
(* only if some entry d of AllowDomain has: the origin's host equals d, or *)
(* AllowSubdomain is true and the host ends with "." + d, or d is "!*".    *)
(* So a subdomain is refused when AllowSubdomain is false, a host that     *)
(* ends with d without the dot is refused when it is true, and a list with *)
(* "!*" accepts every well-formed origin.                                  *)
C6_AcceptedIffAdmitted ==
    (/\ Evaluated
     /\ opt.AllowDomain[1] # "*"
     /\ Origin # ""
     /\ WellFormed)
        => /\ (w.befores # <<>>) <=> SomeEntryAdmits
           /\ (w.status = 400) <=> ~SomeEntryAdmits
           /\ (/\ opt.AllowDomain = <<"example.com">>
               /\ ~opt.AllowSubdomain
               /\ Origin = "https://a.example.com") => w.status = 400
           /\ (/\ opt.AllowDomain = <<"example.com">>
               /\ opt.AllowSubdomain
               /\ Origin = "https://a.example.com") => w.status # 400
           /\ (/\ opt.AllowDomain = <<"example.com">>
               /\ Origin = "https://evilexample.com") => w.status = 400
           /\ (\E i \in DOMAIN opt.AllowDomain : opt.AllowDomain[i] = "!*")
                  => w.status # 400

\* With subdomains allowed, evilexample.com is refused for example.com.
C6_Witness ==
    /\ pc = "done"
    /\ opt.AllowDomain = <<"example.com">>
    /\ opt.AllowSubdomain
    /\ Origin = "https://evilexample.com"
    /\ w.status = 400

\* What follows "://" in s, or s itself when there is no "://".
AfterScheme(s) ==
    IF \E i \in 1..(Len(s) - 2) : SubSeq(s, i, i + 2) = "://"
    THEN LET i == CHOOSE j \in 1..(Len(s) - 2) :
                     /\ SubSeq(s, j, j + 2) = "://"
                     /\ \A k \in 1..(j - 1) : SubSeq(s, k, k + 2) # "://"
         IN  SubSeq(s, i + 3, Len(s))
    ELSE s

C8_Inv ==
    /\ w.applied <= 1
    /\ Len(w.befores) <= 1
    /\ ~Written(w) => (w.applied = 0 /\ NoCORSHeader(w.header))
    /\ (Written(w) /\ w.befores = <<>>) => w.applied = 0
    /\ (Written(w) /\ w.befores # <<>>)
          => /\ w.applied = 1
             /\ \A k \in DOMAIN w.befores[1] :
                    /\ k \in DOMAIN w.sent
                    /\ w.sent[k] = w.befores[1][k]
                    /\ w.header[k] = w.befores[1][k]

\* The callback runs only in the step that writes the status first.
C8_Step ==
    w'.applied > w.applied
        => /\ ~Written(w)
           /\ Written(w')
           /\ w'.applied = w.applied + 1
           /\ pc' = "done"

C9_NoHeadersOnGet ==
    (/\ pc = "done"
     /\ req.method = "GET"
     /\ req.routed
     /\ handlerSet = EmptyMap
     /\ \/ options = <<>> /\ "Origin" \notin DOMAIN req.header
        \/ options = <<TestPolicy>> /\ Origin = "https://example.com")
        => /\ w.status = 200
           /\ Get(w.sent, ACAO) = ""
           /\ Get(w.sent, ACMA) = ""
           /\ Get(w.sent, ACAC) = ""

Hostname(host) ==
    LET i == LastIndex(host, ":")
    IN  IF i = 0 THEN host ELSE SubSeq(host, 1, i - 1)

\* URL.Port() of a host[:port], with its colon; "" when there is none.
ColonPort(host) ==
    LET i == LastIndex(host, ":")
    IN  IF i = 0 THEN "" ELSE SubSeq(host, i, Len(host))

(* C11: the domain test is made on the origin's hostname, the port left    *)
(* out: under a non-wildcard policy an Origin with an explicit port whose  *)
(* hostname equals an allowed domain d (https://example.com:8080 for       *)
(* example.com) is accepted as the same origin without the port is, and    *)
(* the Access-Control-Allow-Origin sent keeps the port.                    *)
C11_HostnameMatch ==
    (/\ Evaluated
     /\ opt.AllowDomain[1] # "*"
     /\ Origin # ""
     /\ WellFormed
     /\ ColonPort(OriginHost) # ""
     /\ \E i \in DOMAIN opt.AllowDomain :
            opt.AllowDomain[i] = Hostname(OriginHost))
        => /\ w.status # 400
           /\ w.befores # <<>>
           /\ pc = "done"
                => /\ ACAO \in DOMAIN w.sent
                   /\ HasSuffix(w.sent[ACAO],
                                Hostname(OriginHost) \o ColonPort(OriginHost))

====
